---- MODULE Spec2Model ----
(***************************************************************************)
(* Ranking baselines of arclus (argument retrieval): the similarity        *)
(* normalisation of get_similar.py and the four ranking methods of         *)
(* models/baselines.py.                                                    *)
(*                                                                         *)
(* Tensors are sequences; a matrix is a sequence of rows.  The code's      *)
(* indices are 0-based, so position i of the code is element i+1 of a      *)
(* sequence (operator At).  Similarity scores are exact numbers: integers  *)
(* for the scores a Similarity returns, pairs <<numerator, denominator>>   *)
(* where the code takes a mean.  Floating-point rounding is not modelled.  *)
(***************************************************************************)
EXTENDS Integers, Sequences, FiniteSets, TLC

VARIABLES obj, last, calls, topkTie, pure, cache, cli, evalLoop

vars == <<obj, last, calls, topkTie, pure, cache, cli, evalLoop>>

\* ---------------------------------------------------------------- bounds
\* the premises of the query claim, in the order of the assignment table; a
\* call's candidates are a sub-list of them
PremiseList == <<"a", "b", "c">>
RepeatList == <<"a", "b">>
MaxK == 3
MaxScore == 2
\* two levels realise every outcome of an argmax
CenterScores == {0, 1}
RankRatios == {<<1, 2>>, <<1, 1>>}

MaxRatioNum == 6
RatioDen == 4
MaxNumPremises == 5
MaxKArg == 6

Shapes == {<<1, 1>>, <<1, 2>>, <<1, 3>>, <<2, 1>>, <<2, 2>>, <<2, 3>>, <<3, 1>>, <<3, 2>>}
MaxEntry == 2
MaxCslsK == 2

Scores == 0..MaxScore
Modes == {"closest-to-center", "closest-to-claim", "closest-to-query"}

\* ---------------------------------------------------------------- helpers
At(s, i) == s[i + 1]

Range(s) == {s[i] : i \in 1..Len(s)}

Min2(x, y) == IF x <= y THEN x ELSE y

Max2(x, y) == IF x >= y THEN x ELSE y

RECURSIVE SeqSum(_)
SeqSum(s) == IF s = <<>> THEN 0 ELSE Head(s) + SeqSum(Tail(s))

\* the sub-lists of a list of unique IDs
SubLists(s) == {SelectSeq(s, LAMBDA x : x \in T) : T \in SUBSET Range(s)}

PremiseIDs == Range(PremiseList)

Ok(v) == [status |-> "ok", value |-> v, error |-> "none"]

Raise(e) == [status |-> "error", value |-> <<>>, error |-> e]

\* ------------------------------------------------------- torch.Tensor.topk
\* indices (0-based) of the k largest entries of a row, largest first; the
\* order among equal entries is not specified by torch and is fixed per
\* build (tie = "low": lower index first, "high": higher index first).
RECURSIVE TopkFrom(_, _, _, _)
TopkFrom(row, k, taken, tie) ==
    IF k = 0 THEN <<>>
    ELSE LET cand == (1..Len(row)) \ taken
             best == CHOOSE i \in cand : \A j \in cand :
                         \/ row[j] < row[i]
                         \/ row[j] = row[i] /\ (IF tie = "low" THEN i <= j ELSE i >= j)
         IN  <<best - 1>> \o TopkFrom(row, k - 1, taken \cup {best}, tie)

topk(row, k, tie) ==
    IF k > Len(row) \/ k < 0 THEN Raise("RuntimeError")
    ELSE Ok(TopkFrom(row, k, {}, tie))

\* --------------------------------------------------------- _num_clusters
\* Python's round(): to the nearest integer, halves to the even neighbour.
\* The argument is the exact fraction p/q with p >= 0, q > 0.
PyRound(p, q) ==
    LET fl == p \div q
        r  == p % q
    IN  IF 2 * r < q THEN fl
        ELSE IF 2 * r > q THEN fl + 1
        ELSE IF fl % 2 = 0 THEN fl ELSE fl + 1

_num_clusters_swapped(ratio, num_premises, k) ==
    Max2(Min2(PyRound(ratio[1] * num_premises, ratio[2]), num_premises), k)

_num_clusters(ratio, num_premises, k) ==
    Min2(Max2(PyRound(ratio[1] * num_premises, ratio[2]), k), num_premises)

\* ------------------------------------------------------------ get_similar
\* exact fractions <<numerator, denominator>>, denominator > 0
RatSub(a, b) == <<a[1] * b[2] - b[1] * a[2], a[2] * b[2]>>

RatEq(a, b) == a[1] * b[2] = b[1] * a[2]

NumRows(M) == Len(M)

NumCols(M) == Len(M[1])

Column(M, j) == [i \in 1..Len(M) |-> M[i][j]]

\* the values topk selects from a vector (sorted=False: in any order)
TopkValues(vec, k) == [n \in 1..k |-> At(vec, TopkFrom(vec, k, {}, "low")[n])]

BottomkValues(vec, k) ==
    LET neg == [n \in 1..Len(vec) |-> 0 - vec[n]]
    IN  [n \in 1..k |-> At(vec, TopkFrom(neg, k, {}, "low")[n])]

\* mutation of _mean_top_sim: topk called with largest=False
_mean_top_sim_smallest(sim, k, dim) ==
    IF dim = 0
    THEN IF k > NumRows(sim) THEN Raise("RuntimeError")
         ELSE Ok(<<[j \in 1..NumCols(sim) |-> <<SeqSum(BottomkValues(Column(sim, j), k)), k>>]>>)
    ELSE IF k > NumCols(sim) THEN Raise("RuntimeError")
         ELSE Ok([i \in 1..NumRows(sim) |-> <<<<SeqSum(BottomkValues(sim[i], k)), k>>>>])

\* sim.topk(k, dim, largest=True, sorted=False)[0].mean(dim).unsqueeze(dim):
\* dim = 0 gives a 1 x Qp matrix (one mean per column), dim = 1 a Qc x 1
\* matrix (one mean per row); topk raises when k exceeds the size of dim.
_mean_top_sim(sim, k, dim) ==
    IF dim = 0
    THEN IF k > NumRows(sim) THEN Raise("RuntimeError")
         ELSE Ok(<<[j \in 1..NumCols(sim) |-> <<SeqSum(TopkValues(Column(sim, j), k)), k>>]>>)
    ELSE IF k > NumCols(sim) THEN Raise("RuntimeError")
         ELSE Ok([i \in 1..NumRows(sim) |-> <<<<SeqSum(TopkValues(sim[i], k)), k>>>>])

\* element [i, j] of a matrix broadcast to a larger shape: an axis of size 1
\* is repeated along that axis
Broadcast(M, i, j) ==
    M[IF NumRows(M) = 1 THEN 1 ELSE i][IF NumCols(M) = 1 THEN 1 ELSE j]

\* (2 * sim) - _mean_top_sim(sim, k, dim=0) - _mean_top_sim(sim, k, dim=1)
\* sim is the matrix the base similarity returned
CSLSSimilarity_sim(sim, k) ==
    LET d0 == _mean_top_sim(sim, k, 0)
        d1 == _mean_top_sim(sim, k, 1)
    IN  IF d0.status = "error" THEN d0
        ELSE IF d1.status = "error" THEN d1
        ELSE Ok([i \in 1..Max2(NumRows(sim), NumRows(d1.value)) |->
                   [j \in 1..Max2(NumCols(sim), NumCols(d0.value)) |->
                      RatSub(RatSub(<<2 * sim[i][j], 1>>, Broadcast(d0.value, i, j)),
                             Broadcast(d1.value, i, j))]])

Matrices(qc, qp) == [1..qc -> [1..qp -> 0..MaxEntry]]

Ratios == {<<n, RatioDen>> : n \in 1..MaxRatioNum}

NoPure == [op |-> "none"]

\* one application of _num_clusters
NumClustersStep ==
    /\ pure = NoPure
    /\ \E ratio \in Ratios, num_premises \in 1..MaxNumPremises, k \in 1..MaxKArg :
         pure' = [op |-> "_num_clusters", ratio |-> ratio, num_premises |-> num_premises,
                  k |-> k, result |-> _num_clusters(ratio, num_premises, k)]
    /\ UNCHANGED <<obj, last, calls, topkTie, cache, cli, evalLoop>>

\* one application of CSLSSimilarity.sim to the matrix of a base similarity
CSLSStep ==
    /\ pure = NoPure
    /\ \E shape \in Shapes, k \in 1..MaxCslsK :
         \E sim \in Matrices(shape[1], shape[2]) :
           pure' = [op |-> "CSLSSimilarity.sim", sim |-> sim, k |-> k,
                    result |-> CSLSSimilarity_sim(sim, k)]
    /\ UNCHANGED <<obj, last, calls, topkTie, cache, cli, evalLoop>>

\* ------------------------------------------------------- models/baselines
NoObj == [cls |-> "none"]

NoCall == [premise_ids |-> <<>>, k |-> 0, n_clusters |-> 0, assignment |-> <<>>,
           centerSim |-> <<>>, result |-> [status |-> "none", value |-> <<>>, error |-> "none"]]

\* row 0 of similarity.sim(claims=claim_repr, premises=premise_repr): the
\* similarity of the query claim to each candidate, in candidate order
SimRow(sims, premise_ids) == [i \in 1..Len(premise_ids) |-> sims[premise_ids[i]]]

\* [premise_ids[i] for i in ids]
Translate(premise_ids, ids) == [n \in 1..Len(ids) |-> At(premise_ids, ids[n])]

\* mutation of ZeroShotKNN.rank: topk called with largest=False
ZeroShotKNN_rank_smallest(sims, premise_ids, k, tie) ==
    IF premise_ids = <<>> THEN Raise("RuntimeError")
    ELSE LET row == SimRow(sims, premise_ids)
             top_ids == topk([i \in 1..Len(row) |-> 0 - row[i]], k, tie)
         IN  IF top_ids.status = "error" THEN top_ids
             ELSE Ok(Translate(premise_ids, top_ids.value))

\* ZeroShotKNN.rank; torch.stack raises on an empty list of tensors
ZeroShotKNN_rank(sims, premise_ids, k, tie) ==
    IF premise_ids = <<>> THEN Raise("RuntimeError")
    ELSE LET top_ids == topk(SimRow(sims, premise_ids), k, tie)
         IN  IF top_ids.status = "error" THEN top_ids
             ELSE Ok(Translate(premise_ids, top_ids.value))

\* Tensor.argmax: the index (0-based) of the first maximal value
argmax(vals) ==
    (CHOOSE i \in 1..Len(vals) : \A j \in 1..Len(vals) :
        vals[j] < vals[i] \/ (vals[j] = vals[i] /\ i <= j)) - 1

\* local_premise_ids[mask] for mask = (assignment == i)
Masked(assignment, i) ==
    SelectSeq([p \in 1..Len(assignment) |-> p - 1], LAMBDA p : At(assignment, p) = i)

\* mutation of _get_cluster_representatives: the index within the cluster is
\* stored without translating it through local_premise_ids[mask]
ClusterRepresentative_untranslated(mode, claimRow, assignment, centerSim, i) ==
    LET members == Masked(assignment, i)
        anchorSim == IF mode = "closest-to-center" THEN centerSim ELSE claimRow
    IN  IF members = <<>> THEN 0 - 1
        ELSE argmax([n \in 1..Len(members) |-> At(anchorSim, members[n])])

\* the representative of cluster i, or -1 when no premise is assigned to it;
\* the anchor is the centroid of cluster i or the claim
ClusterRepresentative(mode, claimRow, assignment, centerSim, i) ==
    LET members == Masked(assignment, i)
        anchorSim == IF mode = "closest-to-center" THEN centerSim ELSE claimRow
    IN  IF members = <<>> THEN 0 - 1
        ELSE At(members, argmax([n \in 1..Len(members) |-> At(anchorSim, members[n])]))

\* mutation of _get_cluster_representatives: the else branch falls back to
\* the claim as anchor instead of raising
_get_cluster_representatives_fallback(mode, claimRow, assignment, centerSim, n_clusters) ==
    Ok([c \in 1..n_clusters |-> ClusterRepresentative(mode, claimRow, assignment, centerSim, c - 1)])

\* ZeroShotClusterKNN._get_cluster_representatives: the mode is tested at the
\* top of every iteration, before the cluster's mask, so an unsupported mode
\* raises in the first iteration
_get_cluster_representatives(mode, claimRow, assignment, centerSim, n_clusters) ==
    IF n_clusters >= 1 /\ mode \notin {"closest-to-center", "closest-to-claim"}
    THEN Raise("NotImplementedError")
    ELSE Ok([c \in 1..n_clusters |-> ClusterRepresentative(mode, claimRow, assignment, centerSim, c - 1)])

\* ZeroShotClusterKNN.rank, given what KMeans returned for the candidates
ZeroShotClusterKNN_rank(o, premise_ids, k, assignment, centerSim, n_clusters, tie) ==
    LET claimRow == SimRow(o.sims, premise_ids)
        cluster_repr_id == _get_cluster_representatives(o.cluster_representative, claimRow,
                                                        assignment, centerSim, n_clusters)
    IN  IF cluster_repr_id.status = "error" THEN cluster_repr_id
        ELSE LET non_empty == SelectSeq(cluster_repr_id.value, LAMBDA r : r >= 0)
                 top_cluster_id == topk([n \in 1..Len(non_empty) |-> At(claimRow, non_empty[n])], k, tie)
             IN  IF top_cluster_id.status = "error" THEN top_cluster_id
                 ELSE Ok(Translate(premise_ids, Translate(non_empty, top_cluster_id.value)))

\* sorted(items, key, reverse=True): stable, equal keys keep their order
RECURSIVE SortedDescFrom(_, _, _)
SortedDescFrom(items, key, taken) ==
    IF Cardinality(taken) = Len(items) THEN <<>>
    ELSE LET cand == (1..Len(items)) \ taken
             best == CHOOSE i \in cand : \A j \in cand :
                         key[j] < key[i] \/ (key[j] = key[i] /\ i <= j)
         IN  <<items[best]>> \o SortedDescFrom(items, key, taken \cup {best})

sorted_reverse(items, key) == SortedDescFrom(items, key, {})

\* s[:k] for k >= 0
Prefix(s, k) == SubSeq(s, 1, Min2(k, Len(s)))

LearnedSimilarityKNN_rank_unsliced(sims, premise_ids, k) ==
    Ok(sorted_reverse(premise_ids, SimRow(sims, premise_ids)))

\* LearnedSimilarityKNN.rank: the scores are looked up by premise ID alone
LearnedSimilarityKNN_rank(sims, premise_ids, k) ==
    Ok(Prefix(sorted_reverse(premise_ids, SimRow(sims, premise_ids)), k))

\* the loop of LearnedSimilarityClusterKNN.rank over the sorted indices
RECURSIVE FirstSeenLoop(_, _, _, _, _)
FirstSeenLoop(order, assignment, premise_ids, seen_clusters, result) ==
    IF order = <<>> THEN result
    ELSE LET i == Head(order)
             cluster_id == At(assignment, i)
         IN  FirstSeenLoop(Tail(order), assignment, premise_ids, seen_clusters \cup {cluster_id},
                           IF cluster_id \notin seen_clusters
                           THEN Append(result, At(premise_ids, i)) ELSE result)

\* the candidates' indices by descending precomputed score
ScoreOrder(sims, premise_ids) ==
    sorted_reverse([i \in 1..Len(premise_ids) |-> i - 1], SimRow(sims, premise_ids))

\* mutation: the sorted indices are cut to k before the clusters are filtered
LearnedSimilarityClusterKNN_rank_cut_first(sims, premise_ids, k, assignment) ==
    Ok(FirstSeenLoop(Prefix(ScoreOrder(sims, premise_ids), k), assignment, premise_ids, {}, <<>>))

\* mutation: every premise is appended, whatever its cluster
LearnedSimilarityClusterKNN_rank_unfiltered(sims, premise_ids, k, assignment) ==
    Ok(Prefix(Translate(premise_ids, ScoreOrder(sims, premise_ids)), k))

\* LearnedSimilarityClusterKNN.rank, given the labels KMeans returned
LearnedSimilarityClusterKNN_rank(sims, premise_ids, k, assignment) ==
    Ok(Prefix(FirstSeenLoop(ScoreOrder(sims, premise_ids), assignment, premise_ids, {}, <<>>), k))

\* what KMeans(n_clusters).fit_predict may return for num_premises points:
\* a label in [0, n_clusters) per point; clusters may stay empty.  No
\* random_state is passed, so every fit draws from numpy's global generator
\* and its outcome is a fresh choice.
Assignments(num_premises, n_clusters) == [1..num_premises -> 0..(n_clusters - 1)]

\* similarity of each candidate to the centroid of its own cluster; the
\* centroids follow from the representations and the labels
CenterSims(num_premises) == [1..num_premises -> CenterScores]

Stores == [PremiseIDs -> Scores]

Object(cls, ratio, mode, sims) ==
    [cls |-> cls, ratio |-> ratio, cluster_representative |-> mode, sims |-> sims]

CallRecord(premise_ids, k, n_clusters, assignment, centerSim, result) ==
    [premise_ids |-> premise_ids, k |-> k, n_clusters |-> n_clusters,
     assignment |-> assignment, centerSim |-> centerSim, result |-> result]

\* ------------------------------------------------------------ constructors
\* ZeroShotRanking.__init__ loads the representations; sims is the similarity
\* of the query claim to every premise under the similarity passed in
ZeroShotKNN_init ==
    /\ obj = NoObj
    /\ \E sims \in Stores : obj' = Object("ZeroShotKNN", <<0, 1>>, "none", sims)
    /\ UNCHANGED <<last, calls, topkTie, pure, cache, cli, evalLoop>>

\* ZeroShotClusterKNN.__init__ stores the ratio and the mode unchecked
ZeroShotClusterKNN_init ==
    /\ obj = NoObj
    /\ \E sims \in Stores, ratio \in RankRatios, mode \in Modes :
         obj' = Object("ZeroShotClusterKNN", ratio, mode, sims)
    /\ UNCHANGED <<last, calls, topkTie, pure, cache, cli, evalLoop>>

\* LearnedSimilarityKNN.__init__: sims are the precomputed similarities
LearnedSimilarityKNN_init ==
    /\ obj = NoObj
    /\ \E sims \in Stores : obj' = Object("LearnedSimilarityKNN", <<0, 1>>, "none", sims)
    /\ UNCHANGED <<last, calls, topkTie, pure, cache, cli, evalLoop>>

LearnedSimilarityClusterKNN_init ==
    /\ obj = NoObj
    /\ \E sims \in Stores, ratio \in RankRatios :
         obj' = Object("LearnedSimilarityClusterKNN", ratio, "none", sims)
    /\ UNCHANGED <<last, calls, topkTie, pure, cache, cli, evalLoop>>

\* ------------------------------------------------------------------- rank
ZeroShotKNN_call(premise_ids, k) ==
    /\ obj.cls = "ZeroShotKNN"
    /\ last' = CallRecord(premise_ids, k, 0, <<>>, <<>>,
                          ZeroShotKNN_rank(obj.sims, premise_ids, k, topkTie))

ZeroShotClusterKNN_call(premise_ids, k) ==
    /\ obj.cls = "ZeroShotClusterKNN"
    /\ IF premise_ids = <<>>
       THEN last' = CallRecord(premise_ids, k, 0, <<>>, <<>>, Raise("RuntimeError"))
       ELSE LET num_premises == Len(premise_ids)
                n_clusters == _num_clusters(obj.ratio, num_premises, k)
            IN  \E assignment \in Assignments(num_premises, n_clusters) :
                \E centerSim \in IF obj.cluster_representative = "closest-to-center"
                                 THEN CenterSims(num_premises)
                                 ELSE {[i \in 1..num_premises |-> 0]} :
                  \* the centroids are the means of the points of each label
                  /\ (calls = 1 /\ assignment = last.assignment) => centerSim = last.centerSim
                  /\ last' = CallRecord(premise_ids, k, n_clusters, assignment, centerSim,
                                     ZeroShotClusterKNN_rank(obj, premise_ids, k, assignment,
                                                             centerSim, n_clusters, topkTie))

LearnedSimilarityKNN_call(premise_ids, k) ==
    /\ obj.cls = "LearnedSimilarityKNN"
    /\ last' = CallRecord(premise_ids, k, 0, <<>>, <<>>,
                          LearnedSimilarityKNN_rank(obj.sims, premise_ids, k))

LearnedSimilarityClusterKNN_call(premise_ids, k) ==
    /\ obj.cls = "LearnedSimilarityClusterKNN"
    /\ IF premise_ids = <<>>
       THEN last' = CallRecord(premise_ids, k, 0, <<>>, <<>>, Raise("RuntimeError"))
       ELSE LET num_premises == Len(premise_ids)
                n_clusters == _num_clusters(obj.ratio, num_premises, k)
            IN  \E assignment \in Assignments(num_premises, n_clusters) :
                  last' = CallRecord(premise_ids, k, n_clusters, assignment, <<>>,
                                     LearnedSimilarityClusterKNN_rank(obj.sims, premise_ids, k,
                                                                      assignment))

\* method.rank(claim_id, premise_ids, k), dispatched on the object's class
rank(premise_ids, k) ==
    \/ ZeroShotKNN_call(premise_ids, k)
    \/ ZeroShotClusterKNN_call(premise_ids, k)
    \/ LearnedSimilarityKNN_call(premise_ids, k)
    \/ LearnedSimilarityClusterKNN_call(premise_ids, k)

\* the first call on a freshly constructed method, its candidates drawn
\* from pools
RankOver(pools) ==
    /\ calls = 0
    /\ \E premise_ids \in pools, k \in 1..MaxK : rank(premise_ids, k)
    /\ calls' = 1
    /\ UNCHANGED <<obj, topkTie, pure, cache, cli, evalLoop>>

Rank == RankOver(SubLists(PremiseList))

RankFew == RankOver(SubLists(RepeatList))

\* the same call again, on the same object with the same arguments; rank
\* writes no attribute of the object, so calls with other arguments add no
\* behaviour that Rank does not already show
RankAgain ==
    /\ calls = 1
    /\ rank(last.premise_ids, last.k)
    /\ calls' = 2
    /\ UNCHANGED <<obj, topkTie, pure, cache, cli, evalLoop>>

\* ------------------------------------------- LearnedSimilarityKNN.__init__
\* the buffer files of the precomputed similarities and the constructions so
\* far, oldest first
ModelPaths == {"model_a", "model_b"}
MaxConstructions == 3

NoFile == [present |-> FALSE]

\* PREP_TEST_SIMILARITIES_SOFTMAX if softmax else PREP_TEST_SIMILARITIES
buffer_path(softmax) ==
    IF softmax THEN "PREP_TEST_SIMILARITIES_SOFTMAX" ELSE "PREP_TEST_SIMILARITIES"

BufferPaths == {buffer_path(softmax) : softmax \in BOOLEAN}

\* dict(zip(guids, predictions)): the scores the model at model_path gives,
\* with or without softmax; they are told apart by what computed them
inference_no_args(model_path, softmax) ==
    [present |-> TRUE, model_path |-> model_path, softmax |-> softmax]

NoCli == [files |-> {}, runs |-> <<>>]

NoEval == [pc |-> "none"]

NoCache == [files |-> [path \in BufferPaths |-> NoFile], log |-> <<>>]

\* LearnedSimilarityKNN.__init__, also run by super().__init__ of
\* LearnedSimilarityClusterKNN: inference and torch.save when the buffer
\* file is missing, then torch.load of the buffer file
LearnedSimilarityKNN_new(cls, softmax, model_path) ==
    LET path == buffer_path(softmax)
        missing == cache.files[path] = NoFile
        files == IF missing
                 THEN [cache.files EXCEPT ![path] = inference_no_args(model_path, softmax)]
                 ELSE cache.files
    IN  /\ Len(cache.log) < MaxConstructions
        /\ cache' = [files |-> files,
                     log |-> Append(cache.log,
                                    [cls |-> cls, softmax |-> softmax, model_path |-> model_path,
                                     inferred |-> missing,
                                     precomputed_similarities |-> files[path]])]
        /\ UNCHANGED <<obj, last, calls, topkTie, pure, cli, evalLoop>>

NewLearnedSimilarityKNN ==
    \E softmax \in BOOLEAN, model_path \in ModelPaths :
        LearnedSimilarityKNN_new("LearnedSimilarityKNN", softmax, model_path)

NewLearnedSimilarityClusterKNN ==
    \E softmax \in BOOLEAN, model_path \in ModelPaths :
        LearnedSimilarityKNN_new("LearnedSimilarityClusterKNN", softmax, model_path)


\* ------------------------------------------------- evaluate_baseline.main
\* the values the command line is run with
OutputRoots == {"results", "results_b"}
MethodNames == {"zero_shot_knn", "learned_similarity_knn"}
SimilarityNames == {"none", "l2"}
ClusterRatioArgs == {"none"}
RepresentativeArgs == {"none"}
KArgs == {5, 10}
MaxRuns == 2

Args == [output_root : OutputRoots, method : MethodNames, k : KArgs, similarity : SimilarityNames,
         cluster_ratio : ClusterRatioArgs, cluster_representative : RepresentativeArgs]

\* config = dict(method, similarity, cluster_ratio, cluster_representative)
config(args) ==
    [method |-> args.method, similarity |-> args.similarity,
     cluster_ratio |-> args.cluster_ratio,
     cluster_representative |-> args.cluster_representative]

\* sha512(str(sorted(config.items())))[:20]: the items in key order
hash_digest(cfg) ==
    <<cfg.cluster_ratio, cfg.cluster_representative, cfg.method, cfg.similarity>>

\* mutation of output_path: k is hashed with the configuration
output_path_with_k(args) ==
    [root |-> args.output_root, name |-> Append(hash_digest(config(args)), args.k)]

\* output_root / f'{hash_digest}.tsv'
output_path(args) ==
    [root |-> args.output_root, name |-> hash_digest(config(args))]

is_file(files, path) == \E f \in files : f.path = path

\* result_df.to_csv(output_path): the rows carry the configuration and the
\* scores evaluated for k; an existing file is replaced
to_csv(files, path, args) ==
    {f \in files : f.path # path} \cup {[path |-> path, config |-> config(args), k |-> args.k]}

RunRecord(args, path, stage) ==
    [args |-> args, output_path |-> path, stage |-> stage,
     instantiated |-> stage \in {"evaluate", "written"},
     evaluated |-> stage = "written",
     wrote |-> stage = "written"]

\* mutation of main: no test of output_path.is_file()
main_no_exit(args) ==
    LET path == output_path(args)
    IN  /\ Len(cli.runs) < MaxRuns
        /\ \E stage \in {"instantiate", "evaluate", "written"} :
             cli' = [files |-> IF stage = "written" THEN to_csv(cli.files, path, args)
                               ELSE cli.files,
                     runs |-> Append(cli.runs, RunRecord(args, path, stage))]
        /\ UNCHANGED <<obj, last, calls, topkTie, pure, cache, evalLoop>>

\* one run of main: quit(0) when the output file exists; otherwise the
\* method is instantiated and evaluated and the results are written.  The
\* run may raise while instantiating (stage "instantiate") or evaluating
\* (stage "evaluate"); it then writes nothing.
main(args) ==
    LET path == output_path(args)
    IN  /\ Len(cli.runs) < MaxRuns
        /\ IF is_file(cli.files, path)
           THEN cli' = [files |-> cli.files,
                        runs |-> Append(cli.runs, RunRecord(args, path, "exit"))]
           ELSE \E stage \in {"instantiate", "evaluate", "written"} :
                  cli' = [files |-> IF stage = "written" THEN to_csv(cli.files, path, args)
                                    ELSE cli.files,
                          runs |-> Append(cli.runs, RunRecord(args, path, stage))]
        /\ UNCHANGED <<obj, last, calls, topkTie, pure, cache, evalLoop>>

RunMain == \E args \in Args : main(args)

\* --------------------------------------------------------- baseline_1.main
\* the assignment table df: one row per (claim, premise) pair, with the
\* claim_id column drawn from ClaimColumns, a relevance grade per row and the
\* LpSimilarity of the row's premise to the row's claim
ClaimColumns ==
    {<<1, 1, 1, 1, 1, 2, 2, 2, 2, 2>>,
     <<1, 1, 1, 1, 1, 2, 2, 2, 2, 2, 2>>,
     <<1, 1, 1, 1, 2, 2, 2, 2, 2>>}
Grades == {0, 1}
\* --k has choices [5, 10]
EvalKs == {5}

\* the similarity column of a table of n rows: all equal, rising, falling
\* or alternating along the rows
SimColumns(n) ==
    {[p \in 1..n |-> 0], [p \in 1..n |-> p], [p \in 1..n |-> n - p], [p \in 1..n |-> p % 2]}

RECURSIVE UniqueFrom(_, _)
UniqueFrom(s, seen) ==
    IF s = <<>> THEN <<>>
    ELSE IF Head(s) \in seen THEN UniqueFrom(Tail(s), seen)
    ELSE <<Head(s)>> \o UniqueFrom(Tail(s), seen \cup {Head(s)})

\* df["claim_id"].unique(): the claim IDs in order of first appearance
unique(claim_id) == UniqueFrom(claim_id, {})

\* df.loc[df["claim_id"] == id]: the positions (0-based) of the claim's rows
loc(claim_id, id) ==
    SelectSeq([p \in 1..Len(claim_id) |-> p - 1], LAMBDA p : At(claim_id, p) = id)

\* get_most_similar(...)[1]: the indices of the k most similar premises
\* among the claim's own premises
get_most_similar(sims, k, tie) == topk(sims, k, tie)

EvalStart(claim_id, relevance, sim, k) ==
    [pc |-> "loop", claim_id |-> claim_id, relevance |-> relevance, sim |-> sim, k |-> k,
     done |-> 0, ndcg_calls |-> <<>>]

EvalStarts ==
    UNION {{EvalStart(claim_id, relevance, sim, k) :
               relevance \in [1..Len(claim_id) -> Grades],
               sim \in SimColumns(Len(claim_id)),
               k \in EvalKs} : claim_id \in ClaimColumns}

\* one iteration of the loop over df["claim_id"].unique(): the claim's
\* premises, their top k, and the relevance sequence handed to ndcg_score,
\* which is read with df.iloc from the whole table
EvalClaim ==
    /\ evalLoop.pc = "loop"
    /\ \E id \in {unique(evalLoop.claim_id)[evalLoop.done + 1]} :
       \E premises \in {loc(evalLoop.claim_id, id)} :
       \E k_indices \in {get_most_similar([n \in 1..Len(premises) |-> At(evalLoop.sim, premises[n])],
                                           evalLoop.k, topkTie)} :
           IF k_indices.status = "error"
           THEN evalLoop' = [evalLoop EXCEPT !.pc = "error"]
           ELSE evalLoop' =
                  [evalLoop EXCEPT
                     !.done = @ + 1,
                     !.pc = IF evalLoop.done + 1 = Len(unique(evalLoop.claim_id))
                            THEN "done" ELSE "loop",
                     !.ndcg_calls = Append(@,
                         [id |-> id, k_indices |-> k_indices.value,
                          y_score |-> [n \in 1..Len(k_indices.value) |->
                                          At(evalLoop.relevance, k_indices.value[n])]])]
    /\ UNCHANGED <<obj, last, calls, topkTie, pure, cache, cli>>

\* ---------------------------------------------------------- specifications
Init ==
    /\ obj = NoObj
    /\ last = NoCall
    /\ calls = 0
    /\ topkTie \in {"low", "high"}
    /\ pure = NoPure
    /\ cache = NoCache
    /\ cli = NoCli
    /\ evalLoop = NoEval

Next ==
    \/ ZeroShotKNN_init
    \/ ZeroShotClusterKNN_init
    \/ LearnedSimilarityKNN_init
    \/ LearnedSimilarityClusterKNN_init
    \/ Rank

Spec == Init /\ [][Next]_vars

\* a session that repeats its call
NextRepeat ==
    \/ ZeroShotKNN_init
    \/ ZeroShotClusterKNN_init
    \/ LearnedSimilarityKNN_init
    \/ LearnedSimilarityClusterKNN_init
    \/ RankFew
    \/ RankAgain

SpecRepeat == Init /\ [][NextRepeat]_vars

NextPure == NumClustersStep \/ CSLSStep

SpecPure == Init /\ [][NextPure]_vars

\* a process that constructs learned-similarity methods one after another
NextCache == NewLearnedSimilarityKNN \/ NewLearnedSimilarityClusterKNN

SpecCache == Init /\ [][NextCache]_vars

\* runs of the evaluation command line, one after another
NextCli == RunMain

SpecCli == Init /\ [][NextCli]_vars

\* one run of the baseline_1 evaluation over an assignment table
InitEval ==
    /\ obj = NoObj
    /\ last = NoCall
    /\ calls = 0
    /\ topkTie \in {"low", "high"}
    /\ pure = NoPure
    /\ cache = NoCache
    /\ cli = NoCli
    /\ evalLoop \in EvalStarts

NextEval == EvalClaim

SpecEval == InitEval /\ [][NextEval]_vars

\* ------------------------------------------------------------- properties
Returned == calls >= 1 /\ last.result.status = "ok"

Failed == calls >= 1 /\ last.result.status = "error"

Ranking == last.result.value

NoDuplicates(s) == \A i, j \in 1..Len(s) : i # j => s[i] # s[j]

IsClusterMethod == obj.cls \in {"ZeroShotClusterKNN", "LearnedSimilarityClusterKNN"}

\* the cluster label KMeans gave premise p in the last call
ClusterLabel(p) ==
    last.assignment[CHOOSE i \in 1..Len(last.premise_ids) : last.premise_ids[i] = p]

\* the labels that carry at least one candidate
NonEmptyClusters == Range(last.assignment)

\* C1: a ranking returned by any of the four methods holds only candidates
\* of the call, holds none twice and is no longer than min(k, |premise_ids|)
C1_RankingWithinPool ==
    Returned =>
        /\ Range(Ranking) \subseteq Range(last.premise_ids)
        /\ NoDuplicates(Ranking)
        /\ Len(Ranking) <= Min2(last.k, Len(last.premise_ids))

C1_Witness ==
    /\ Returned
    /\ obj.cls = "LearnedSimilarityKNN"
    /\ Len(last.premise_ids) = 3
    /\ last.k = 2
    /\ Len(Ranking) = 2

\* C2: the premises a cluster-based method returns carry pairwise different
\* cluster labels
C2_OnePerCluster ==
    (Returned /\ IsClusterMethod) =>
        Cardinality({ClusterLabel(p) : p \in Range(Ranking)}) = Len(Ranking)

C2_Witness ==
    /\ Returned
    /\ obj.cls = "LearnedSimilarityClusterKNN"
    /\ Len(last.premise_ids) = 3
    /\ Cardinality(NonEmptyClusters) = 2
    /\ last.k = 2
    /\ Len(Ranking) = 2

\* C3: for 0 < k <= |premise_ids| ZeroShotKNN.rank returns k candidates, in
\* descending similarity, none of them less similar than a candidate left
\* out; [a, b, c] with similarities [0, 2, 1] and k = 2 gives [b, c]
C3_TopKDescending ==
    (calls >= 1 /\ obj.cls = "ZeroShotKNN"
        /\ last.k > 0 /\ last.k <= Len(last.premise_ids)) =>
        /\ last.result.status = "ok"
        /\ Len(Ranking) = last.k
        /\ NoDuplicates(Ranking)
        /\ Range(Ranking) \subseteq Range(last.premise_ids)
        /\ \A i \in 1..(Len(Ranking) - 1) : obj.sims[Ranking[i]] >= obj.sims[Ranking[i + 1]]
        /\ \A p \in Range(last.premise_ids) \ Range(Ranking) :
               \A q \in Range(Ranking) : obj.sims[p] <= obj.sims[q]
        /\ (last.premise_ids = <<"a", "b", "c">> /\ last.k = 2
              /\ obj.sims["a"] = 0 /\ obj.sims["b"] = 2 /\ obj.sims["c"] = 1)
           => Ranking = <<"b", "c">>

C3_Witness ==
    /\ Returned
    /\ obj.cls = "ZeroShotKNN"
    /\ last.premise_ids = <<"a", "b", "c">>
    /\ last.k = 2
    /\ obj.sims["a"] = 0 /\ obj.sims["b"] = 2 /\ obj.sims["c"] = 1
    /\ Ranking = <<"b", "c">>

\* C4: a call with k larger than the number of candidates returns a ranking
\* of at most |premise_ids| premises and raises nothing
C4_LargeKReturns ==
    (calls >= 1 /\ last.premise_ids # <<>> /\ last.k > Len(last.premise_ids)) =>
        /\ last.result.status = "ok"
        /\ Len(Ranking) <= Len(last.premise_ids)

\* C5 as stated: the cluster count lies between k and num_premises
C5_AtLeastK ==
    pure.op = "_num_clusters" =>
        /\ pure.result >= pure.k
        /\ pure.result <= pure.num_premises

\* C5: the cluster count is at most num_premises and at least
\* min(k, num_premises), hence at least k whenever k <= num_premises
C5_ClampedCount ==
    pure.op = "_num_clusters" =>
        /\ pure.result <= pure.num_premises
        /\ pure.result >= Min2(pure.k, pure.num_premises)
        /\ pure.k <= pure.num_premises => pure.result >= pure.k

C5_Witness ==
    /\ pure.op = "_num_clusters"
    /\ pure.k > pure.num_premises
    /\ pure.num_premises >= 2
    /\ pure.result = pure.num_premises

\* the greedy procedure: visit the candidates in the given order, append a
\* candidate iff no earlier visited candidate has its label, stop at k
RECURSIVE GreedyFirstSeen(_, _, _, _, _, _)
GreedyFirstSeen(order, assignment, premise_ids, k, visited, collected) ==
    IF Len(collected) >= k \/ order = <<>> THEN collected
    ELSE LET i == Head(order)
             label == At(assignment, i)
         IN  GreedyFirstSeen(Tail(order), assignment, premise_ids, k, visited \cup {label},
                             IF label \in visited THEN collected
                             ELSE Append(collected, At(premise_ids, i)))

\* C6: LearnedSimilarityClusterKNN.rank returns what the greedy first-seen
\* procedure with early stop collects
C6_GreedyFirstSeen ==
    (Returned /\ obj.cls = "LearnedSimilarityClusterKNN") =>
        Ranking = GreedyFirstSeen(ScoreOrder(obj.sims, last.premise_ids), last.assignment,
                                  last.premise_ids, last.k, {}, <<>>)

C6_Witness ==
    /\ Returned
    /\ obj.cls = "LearnedSimilarityClusterKNN"
    /\ Len(last.premise_ids) = 3
    /\ Cardinality(NonEmptyClusters) = 2
    /\ last.k = 1
    /\ Len(Ranking) = 1
    /\ ClusterLabel(At(last.premise_ids, ScoreOrder(obj.sims, last.premise_ids)[1]))
         = ClusterLabel(At(last.premise_ids, ScoreOrder(obj.sims, last.premise_ids)[2]))

\* C7: with a supported mode ZeroShotClusterKNN.rank returns min(k, m)
\* representatives, m being the number of non-empty clusters
C7_EmptyClustersSkipped ==
    (calls >= 1 /\ obj.cls = "ZeroShotClusterKNN" /\ last.premise_ids # <<>>
        /\ obj.cluster_representative \in {"closest-to-center", "closest-to-claim"}) =>
        /\ last.result.status = "ok"
        /\ Len(Ranking) = Min2(last.k, Cardinality(NonEmptyClusters))

\* the largest sum of k entries of a vector
RECURSIVE SetSum(_, _)
SetSum(vec, T) ==
    IF T = {} THEN 0
    ELSE LET x == CHOOSE y \in T : TRUE IN vec[x] + SetSum(vec, T \ {x})

LargestSum(vec, k) ==
    LET sums == {SetSum(vec, T) : T \in {U \in SUBSET (1..Len(vec)) : Cardinality(U) = k}}
    IN  CHOOSE m \in sums : \A n \in sums : n <= m

\* C8: for 1 <= k <= min(Qc, Qp) CSLSSimilarity.sim returns a Qc x Qp matrix
\* with entry [i, j] = 2 * S[i, j] - mean of the k largest of row i
\*                                 - mean of the k largest of column j
C8_CSLSEntries ==
    (pure.op = "CSLSSimilarity.sim"
        /\ pure.k >= 1 /\ pure.k <= Min2(NumRows(pure.sim), NumCols(pure.sim))) =>
        /\ pure.result.status = "ok"
        /\ NumRows(pure.result.value) = NumRows(pure.sim)
        /\ \A i \in 1..NumRows(pure.sim) :
             /\ Len(pure.result.value[i]) = NumCols(pure.sim)
             /\ \A j \in 1..NumCols(pure.sim) :
                  RatEq(pure.result.value[i][j],
                        <<2 * pure.k * pure.sim[i][j] - LargestSum(pure.sim[i], pure.k)
                            - LargestSum(Column(pure.sim, j), pure.k), pure.k>>)

C8_Witness ==
    /\ pure.op = "CSLSSimilarity.sim"
    /\ pure.k = 2
    /\ pure.sim = <<<<0, 2, 1>>, <<1, 0, 2>>>>
    /\ pure.result.status = "ok"
    /\ RatEq(pure.result.value[1][2], <<3, 2>>)

\* C9: a call repeated on the same object with the same arguments has the
\* same outcome
C9_RepeatedCallSameOutput ==
    [][(calls = 1 /\ calls' = 2 /\ obj' = obj
          /\ last'.premise_ids = last.premise_ids /\ last'.k = last.k)
       => last'.result = last.result]_vars

\* C10: a ZeroShotClusterKNN built with an unsupported mode exists, and each
\* of its rank calls on a non-empty pool raises NotImplementedError
C10_UnsupportedModeRaises ==
    (calls >= 1 /\ obj.cls = "ZeroShotClusterKNN" /\ last.premise_ids # <<>>
        /\ obj.cluster_representative \notin {"closest-to-center", "closest-to-claim"}) =>
        /\ last.result.status = "error"
        /\ last.result.error = "NotImplementedError"
        /\ Ranking = <<>>

C10_Witness ==
    /\ Failed
    /\ obj.cls = "ZeroShotClusterKNN"
    /\ obj.cluster_representative = "closest-to-query"
    /\ Len(last.premise_ids) = 2
    /\ last.n_clusters = 2
    /\ 0 \notin NonEmptyClusters
    /\ last.result.error = "NotImplementedError"

\* the representatives _get_cluster_representatives computes in the last call
LastRepresentatives ==
    _get_cluster_representatives(obj.cluster_representative, SimRow(obj.sims, last.premise_ids),
                                 last.assignment, last.centerSim, last.n_clusters)

\* the local indices of the candidates labelled i in the last call
ClusterMembers(i) == {p \in 0..(Len(last.premise_ids) - 1) : At(last.assignment, p) = i}

\* similarity of candidate p to the anchor of its cluster in the last call
AnchorSim(p) ==
    IF obj.cluster_representative = "closest-to-center"
    THEN At(last.centerSim, p)
    ELSE obj.sims[At(last.premise_ids, p)]

\* C13: with a supported mode, entry i of the representatives is -1 when
\* cluster i has no candidate, and otherwise a candidate of cluster i whose
\* similarity to the anchor is maximal within the cluster
C13_RepresentativePerCluster ==
    (calls >= 1 /\ obj.cls = "ZeroShotClusterKNN" /\ last.premise_ids # <<>>
        /\ obj.cluster_representative \in {"closest-to-center", "closest-to-claim"}) =>
        /\ LastRepresentatives.status = "ok"
        /\ Len(LastRepresentatives.value) = last.n_clusters
        /\ \A i \in 0..(last.n_clusters - 1) :
             LET r == At(LastRepresentatives.value, i)
             IN  IF ClusterMembers(i) = {} THEN r = 0 - 1
                 ELSE /\ r \in ClusterMembers(i)
                      /\ \A q \in ClusterMembers(i) : AnchorSim(q) <= AnchorSim(r)

C13_Witness ==
    /\ calls >= 1
    /\ obj.cls = "ZeroShotClusterKNN"
    /\ obj.cluster_representative = "closest-to-center"
    /\ Len(last.premise_ids) = 3
    /\ last.n_clusters = 3
    /\ last.assignment = <<2, 0, 2>>
    /\ last.centerSim = <<0, 1, 1>>
    /\ LastRepresentatives.value = <<1, 0 - 1, 2>>

SameConfiguration(x, y) == x.softmax = y.softmax /\ x.model_path = y.model_path

\* C11: inference runs at most once per (softmax, model_path), only when no
\* earlier construction had that configuration, and every construction
\* loads the scores computed for its own configuration
C11_OncePerConfiguration ==
    \A i \in 1..Len(cache.log) :
        /\ cache.log[i].inferred =>
             \A j \in 1..(i - 1) : ~SameConfiguration(cache.log[i], cache.log[j])
        /\ (\E j \in 1..(i - 1) : SameConfiguration(cache.log[i], cache.log[j]))
             => ~cache.log[i].inferred
        /\ cache.log[i].precomputed_similarities
             = inference_no_args(cache.log[i].model_path, cache.log[i].softmax)

SameCommand(x, y) ==
    /\ x.args.output_root = y.args.output_root
    /\ config(x.args) = config(y.args)

\* an earlier run than run i wrote the file run i resolves to
WrittenBefore(i) ==
    \E j \in 1..(i - 1) : cli.runs[j].wrote /\ cli.runs[j].output_path = cli.runs[i].output_path

\* C12: runs with the same output root and configuration resolve to the
\* same path; a run whose file is already there exits before instantiating
\* or evaluating and writes nothing; each path is written at most once and
\* its file stays as its one writer left it
C12_WrittenOncePerPath ==
    /\ \A i, j \in 1..Len(cli.runs) :
         SameCommand(cli.runs[i], cli.runs[j])
            => cli.runs[i].output_path = cli.runs[j].output_path
    /\ \A i \in 1..Len(cli.runs) :
         WrittenBefore(i) =>
            /\ cli.runs[i].stage = "exit"
            /\ ~cli.runs[i].instantiated
            /\ ~cli.runs[i].evaluated
            /\ ~cli.runs[i].wrote
    /\ \A f \in cli.files :
         /\ \A g \in cli.files : g.path = f.path => g = f
         /\ \E i \in 1..Len(cli.runs) :
              /\ cli.runs[i].wrote
              /\ cli.runs[i].output_path = f.path
              /\ f.k = cli.runs[i].args.k
              /\ f.config = config(cli.runs[i].args)
              /\ \A j \in 1..Len(cli.runs) :
                   (cli.runs[j].wrote /\ cli.runs[j].output_path = f.path) => j = i

C12_Witness ==
    /\ Len(cli.runs) = 2
    /\ cli.runs[1].args = cli.runs[2].args
    /\ cli.runs[1].wrote
    /\ cli.runs[2].stage = "exit"
    /\ Cardinality(cli.files) = 1

\* C15: two runs that differ only in k resolve to the same path, and once
\* the earlier one has written, the later one exits without evaluating or
\* writing and the file keeps the earlier run's k
C15_PathIgnoresK ==
    \A i, j \in 1..Len(cli.runs) :
        (i < j /\ SameCommand(cli.runs[i], cli.runs[j])
           /\ cli.runs[i].args.k # cli.runs[j].args.k) =>
           /\ cli.runs[i].output_path = cli.runs[j].output_path
           /\ cli.runs[i].wrote =>
                /\ cli.runs[j].stage = "exit"
                /\ ~cli.runs[j].evaluated
                /\ ~cli.runs[j].wrote
                /\ \A f \in cli.files :
                     f.path = cli.runs[j].output_path => f.k = cli.runs[i].args.k

C15_Witness ==
    /\ Len(cli.runs) = 2
    /\ SameCommand(cli.runs[1], cli.runs[2])
    /\ cli.runs[1].args.k = 5
    /\ cli.runs[2].args.k = 10
    /\ cli.runs[1].wrote
    /\ cli.runs[2].stage = "exit"
    /\ \E f \in cli.files : f.path = cli.runs[2].output_path /\ f.k = 5

\* C14: in every ndcg_score call the i-th predicted relevance is the grade
\* of the premise at the i-th returned index within the claim's own premises
C14_OwnRelevances ==
    \A c \in 1..Len(evalLoop.ndcg_calls) :
        LET call == evalLoop.ndcg_calls[c]
            premises == loc(evalLoop.claim_id, call.id)
        IN  /\ Len(call.y_score) = Len(call.k_indices)
            /\ \A n \in 1..Len(call.k_indices) :
                 call.y_score[n] = At(evalLoop.relevance, At(premises, call.k_indices[n]))

====
